---------------------------- MODULE Spec2Model ----------------------------
(***************************************************************************)
(* A model of pin-dl (src/src/__init__.py): the board discovery            *)
(* (get_page_data, user_boards), the feed pagination and classification    *)
(* (get_download_links), the playlist resolution (get_stream_urls), the    *)
(* media fetches (fetch_image, fetch_video) and the driver (fetch_board,   *)
(* main).                                                                  *)
(*                                                                         *)
(* Encoding of Python values:                                              *)
(*   - a dict is a record; `"k" in d` is `"k" \in DOMAIN d`;               *)
(*   - None / JSON null is the record Null when it stands where a dict     *)
(*     may stand, and the string NoneStr where a string may stand;         *)
(*   - a list is a sequence; bytes are a sequence of chunks;               *)
(*   - a URL is the sequence of its "/"-separated segments (url.split("/"))*)
(*     and an image URL the sequence of its "."-separated parts.           *)
(***************************************************************************)
EXTENDS Integers, Sequences, FiniteSets, TLC

VARIABLES
    \* ---- get_download_links (lines 138-192)
    fPc,          \* position in get_download_links: "idle", "loop", "returned", "raised"
    board,        \* the Board argument
    bookmark,     \* local `bookmark`
    resources,    \* local `resources`, the accumulator of raw feed items
    originals,    \* local `originals`, the returned list
    fErr,         \* the exception that left get_download_links, or "none"
    lastReq,      \* <<>> or <<r>>: the last feed request issued
    prevResp,     \* <<>> or <<r>>: the response received just before lastReq was issued
    lastResp,     \* <<>> or <<r>>: the last feed response received
    nreq,         \* number of feed requests issued, counted up to MaxReq
    endAt,        \* the request number whose response first carried "-end-", 0 if none
    pageLog,      \* the data arrays of the pages received, in order (first MaxReq pages)
    \* ---- get_stream_urls (lines 215-248)
    sPc,          \* "idle", "master", "variant", "returned", "raised"
    url,          \* parameter/local `url`
    masterLines,  \* the lines of the first response
    best_quality, \* local `best_quality`
    variantLines, \* the lines of the second response
    stream_urls,  \* local `stream_urls`
    sRequests,    \* the URLs requested by this call, in order
    sErr,         \* the exception that left get_stream_urls, or "none"
    \* ---- get_page_data / user_boards (lines 55-58, 84-135)
    baseRes,      \* the object UserProfileResources.UserProfileBaseResource (class attribute)
    boardRes,     \* the object UserProfileResources.UserProfileBoardResource (class attribute)
    resultError,  \* result.error of the last call's result
    pageResponse, \* <<>> or <<responses>>: the resourceResponses of the current call
    pRet,         \* outcome of the last call: "none", "get_page_data", "user_boards", or the exception
    \* ---- main / fetch_board / fetch_image / fetch_video (lines 195-212, 251-320, 385-405)
    mPc,          \* "start", "links", "fetch_board", "resource", "done", "aborted"
    force,        \* args.force
    feedOf,       \* the server's feed content (raw items) of each board id
    fs,           \* the filesystem: path -> bytes
    fs0,          \* the filesystem when main started
    dirs,         \* the directories that exist
    boards,       \* local `boards`
    bi,           \* index of the current board in `boards`
    links,        \* local `links`
    ri,           \* index of the current resource in `links`
    raised,       \* the exception main's handler caught, or "none"
    mediaReqs,    \* the set of URLs requested by fetch_image / fetch_video
    lastStep,     \* <<>> or <<s>>: what fetch_board did for the last resource it visited
    visited,      \* the <<board index, resource index>> pairs fetch_board's loop reached, in order
    linkCounts,   \* Len(links) of each board for which get_download_links returned
    allExisted,   \* every destination checked so far existed when it was checked
    firstFail     \* <<>> or <<pos>>: position of the first failed media fetch

feedVars == <<fPc, board, bookmark, resources, originals, fErr, lastReq, prevResp, lastResp,
              nreq, endAt, pageLog>>
streamVars == <<sPc, url, masterLines, best_quality, variantLines, stream_urls, sRequests,
                sErr>>
pageVars == <<baseRes, boardRes, resultError, pageResponse, pRet>>
mainVars == <<mPc, force, feedOf, fs, fs0, dirs, boards, bi, links, ri, raised, mediaReqs, lastStep,
              visited, linkCounts, allExisted, firstFail>>
vars == <<feedVars, streamVars, pageVars, mainVars>>

-----------------------------------------------------------------------------
(* Bounds of the model *)

\* feed requests that are counted and logged; later ones still happen
MaxReq == 3
\* boards in one profile page
MaxBoards == 2
\* lines in a master playlist response
MaxMasterLines == 3
\* lines in a variant playlist response
MaxVariantLines == 2
\* entries in one resourceResponses array
MaxEntries == 2

-----------------------------------------------------------------------------
(* Values *)

Null == [null |-> TRUE]
NoneStr == "<None>"
EndBookmark == "-end-"
PageSize == 25

\* Python truthiness of a string-or-None
Truthy(s) == s # NoneStr /\ s # ""

RECURSIVE Flatten(_)
Flatten(ss) == IF ss = <<>> THEN <<>> ELSE Head(ss) \o Flatten(Tail(ss))

SeqsUpTo(S, n) == UNION {[1..k -> S] : k \in 0..n}

Last(s) == s[Len(s)]

\* class Board (lines 21-31)
Board(board_id, burl, owner, name) ==
    [id |-> board_id, url |-> burl, owner |-> owner, name |-> name]

BoardA == Board("111", "alice/cats", "alice", "cats")
BoardB == Board("222", "alice/dogs", "alice", "dogs")
Boards == {BoardA, BoardB}

\* class DownloadableResource (lines 39-42)
DownloadableResource(type, id, rurl) == [type |-> type, id |-> id, url |-> rurl]

-----------------------------------------------------------------------------
(* Raw feed items, as the feed API returns them *)

ImageUrl == <<"https://i", "pinimg", "com/originals/a", "jpg">>
PlaylistUrl == <<"https:", "", "v.pinimg.com", "videos", "hls", "master.m3u8">>

ItemImage == [id |-> "p1", images |-> [orig |-> [url |-> ImageUrl]], videos |-> Null]
ItemVideo == [id |-> "p2",
              videos |-> [video_list |-> [V_HLSV4 |-> [url |-> PlaylistUrl]]]]
ItemNeither == [id |-> "p3"]
ItemImageNoVideosKey == [id |-> "p4", images |-> [orig |-> [url |-> ImageUrl]]]
ItemBoth == [id |-> "p5", images |-> [orig |-> [url |-> ImageUrl]],
             videos |-> [video_list |-> [V_HLSV4 |-> [url |-> PlaylistUrl]]]]
ItemVideosNull == [id |-> "p6", videos |-> Null]

FeedItems == {ItemImage, ItemVideo, ItemNeither, ItemImageNoVideosKey, ItemBoth,
              ItemVideosNull}

\* the data array of one feed page
PageData == {<<>>, <<ItemImage, ItemVideo>>, <<ItemNeither, ItemBoth, ItemVideosNull>>,
             <<ItemImageNoVideosKey>>}

\* the cursors a server can put in resource.options.bookmarks[0]
Cursors == {"", "Y2JVSG81", EndBookmark}

\* a feed response body (r.json()); bookmarks may be an empty array
FeedResponse(data, bookmarks) ==
    [resource_response |-> [data |-> data],
     resource |-> [options |-> [bookmarks |-> bookmarks]]]

FeedResponses ==
    {FeedResponse(d, <<c>>) : d \in PageData, c \in Cursors}
    \cup {FeedResponse(<<>>, <<>>)}

-----------------------------------------------------------------------------
(* get_download_links *)

FeedEndpoint == <<"https:", "", "pinterest.com", "resource", "BoardFeedResource", "get", "">>

\* lines 150-158: the options of one request
RequestOptions(b, bm) ==
    IF Truthy(bm)
    THEN [board_id |-> b.id, page_size |-> PageSize, bookmarks |-> <<bm>>]
    ELSE [board_id |-> b.id, page_size |-> PageSize]

\* lines 160-166: the request of one iteration
FeedRequest(b, bm) ==
    [url |-> FeedEndpoint,
     params |-> [source_url |-> b.url,
                 data |-> [options |-> RequestOptions(b, bm), context |-> <<>>]]]

\* the loop condition with the sentinel misspelt
LoopCondition_WrongSentinel(bm) == bm # "end"

\* line 149: the loop condition
LoopCondition(bm) == bm # EndBookmark

\* line 169: resources += data["resource_response"]["data"]
Accumulate(acc, data) == acc \o data

\* lines 175-190: the body of the classification loop for one item;
\* err is the exception it raises, out what it appends to originals
ClassifyItem(res) ==
    IF "images" \in DOMAIN res /\ "videos" \notin DOMAIN res
    THEN [err |-> "KeyError", out |-> <<>>]
    ELSE LET image == IF "images" \in DOMAIN res /\ res.videos = Null
                      THEN <<DownloadableResource("image", res.id, res.images.orig.url)>>
                      ELSE <<>>
             video == IF "videos" \in DOMAIN res /\ res.videos # Null
                      THEN <<DownloadableResource("video", res.id,
                                                  res.videos.video_list.V_HLSV4.url)>>
                      ELSE <<>>
         IN [err |-> "none", out |-> image \o video]

\* lines 172-192: the classification loop
RECURSIVE ClassifyAll(_)
ClassifyAll(rs) ==
    IF rs = <<>> THEN [err |-> "none", out |-> <<>>]
    ELSE LET h == ClassifyItem(Head(rs))
         IN IF h.err # "none" THEN [err |-> h.err, out |-> <<>>]
            ELSE LET t == ClassifyAll(Tail(rs))
                 IN IF t.err # "none" THEN t
                    ELSE [err |-> "none", out |-> h.out \o t.out]

InitFeedIdle ==
    /\ fPc = "idle" /\ board = BoardA /\ bookmark = NoneStr /\ resources = <<>>
    /\ originals = <<>> /\ fErr = "none" /\ lastReq = <<>> /\ prevResp = <<>>
    /\ lastResp = <<>> /\ nreq = 0 /\ endAt = 0 /\ pageLog = <<>>

\* lines 145-147: the state on entry to the loop
InitFeed ==
    /\ fPc = "loop" /\ board \in Boards /\ bookmark = NoneStr /\ resources = <<>>
    /\ originals = <<>> /\ fErr = "none" /\ lastReq = <<>> /\ prevResp = <<>>
    /\ lastResp = <<>> /\ nreq = 0 /\ endAt = 0 /\ pageLog = <<>>

\* lines 149-170: one iteration of the pagination loop, the server answering resp
get_download_links_page ==
    /\ fPc = "loop"
    /\ LoopCondition(bookmark)
    /\ \E resp \in FeedResponses :
        LET data == resp.resource_response.data
            bms == resp.resource.options.bookmarks
            counted == nreq < MaxReq
        IN /\ lastReq' = <<FeedRequest(board, bookmark)>>
           /\ prevResp' = lastResp
           /\ lastResp' = <<resp>>
           /\ nreq' = IF counted THEN nreq + 1 ELSE nreq
           /\ resources' = IF counted THEN Accumulate(resources, data) ELSE resources
           /\ pageLog' = IF counted THEN Append(pageLog, data) ELSE pageLog
           /\ IF bms = <<>>
              THEN \* line 170: bookmarks[0] of an empty array
                   /\ fPc' = "raised" /\ fErr' = "IndexError"
                   /\ UNCHANGED <<bookmark, endAt>>
              ELSE /\ bookmark' = bms[1]
                   /\ endAt' = IF bms[1] = EndBookmark /\ endAt = 0 /\ counted
                               THEN nreq + 1 ELSE endAt
                   /\ UNCHANGED <<fPc, fErr>>
    /\ UNCHANGED <<board, originals>>
    /\ UNCHANGED <<streamVars, pageVars, mainVars>>

\* lines 160-168: the request fails (s.get or r.json() raises)
get_download_links_request_fails ==
    /\ fPc = "loop"
    /\ LoopCondition(bookmark)
    /\ lastReq' = <<FeedRequest(board, bookmark)>>
    /\ prevResp' = lastResp
    /\ nreq' = IF nreq < MaxReq THEN nreq + 1 ELSE nreq
    /\ fPc' = "raised" /\ fErr' = "RequestException"
    /\ UNCHANGED <<board, bookmark, resources, originals, lastResp, endAt, pageLog>>
    /\ UNCHANGED <<streamVars, pageVars, mainVars>>

\* lines 172-192: the loop has ended; classify and return
get_download_links_classify ==
    /\ fPc = "loop"
    /\ ~LoopCondition(bookmark)
    /\ LET c == ClassifyAll(resources)
       IN IF c.err # "none"
          THEN fPc' = "raised" /\ fErr' = c.err /\ UNCHANGED originals
          ELSE fPc' = "returned" /\ originals' = c.out /\ UNCHANGED fErr
    /\ UNCHANGED <<board, bookmark, resources, lastReq, prevResp, lastResp, nreq, endAt,
                   pageLog>>
    /\ UNCHANGED <<streamVars, pageVars, mainVars>>

-----------------------------------------------------------------------------
(* get_stream_urls *)

\* the lines a playlist response can hold (r.iter_lines(), decoded)
MasterLineSet == {"#EXTM3U", "", "360p.m3u8", "hd/720p.m3u8"}
VariantLineSet == {"#EXTINF:4.0,", "", "seg0.ts", "seg1.ts"}

\* str.endswith on the lines above
EndsWith(s, suffix) ==
    CASE suffix = "m3u8" -> s \in {"360p.m3u8", "hd/720p.m3u8"}
      [] suffix = "ts" -> s \in {"seg0.ts", "seg1.ts"}
      [] OTHER -> FALSE

\* str.split("/") on the lines above
SplitSlash(s) == IF s = "hd/720p.m3u8" THEN <<"hd", "720p.m3u8">> ELSE <<s>>

\* lines 227-228, 241-242: the lines the scan does not skip
Keeps(line, suffix) == ~((line = "") \/ ~EndsWith(line, suffix))

\* lines 221-230: best_quality after the scan of the first response
RECURSIVE BestQuality(_, _)
BestQuality(lines, best) ==
    IF lines = <<>> THEN best
    ELSE BestQuality(Tail(lines), IF Keeps(Head(lines), "m3u8") THEN Head(lines) ELSE best)

\* lines 232-234, 244-246: u.split("/"), [-1] = line, "/".join, as the split of the result
ReplaceLast(u, line) == SubSeq(u, 1, Len(u) - 1) \o SplitSlash(line)

\* lines 237-246: stream_urls after the scan of the second response
RECURSIVE StreamUrls(_, _)
StreamUrls(vurl, lines) ==
    IF lines = <<>> THEN <<>>
    ELSE (IF Keeps(Head(lines), "ts") THEN <<ReplaceLast(vurl, Head(lines))>> ELSE <<>>)
         \o StreamUrls(vurl, Tail(lines))

InitStreamIdle ==
    /\ sPc = "idle" /\ url = PlaylistUrl /\ masterLines = <<>> /\ best_quality = ""
    /\ variantLines = <<>> /\ stream_urls = <<>> /\ sRequests = <<>> /\ sErr = "none"

\* the state on entry to get_stream_urls
InitStream ==
    /\ sPc = "master" /\ url = PlaylistUrl /\ masterLines = <<>> /\ best_quality = ""
    /\ variantLines = <<>> /\ stream_urls = <<>> /\ sRequests = <<>> /\ sErr = "none"

\* lines 220-234: request the playlist, scan it, build the variant URL
get_stream_urls_master ==
    /\ sPc = "master"
    /\ \E lines \in SeqsUpTo(MasterLineSet, MaxMasterLines) :
        LET best == BestQuality(lines, "")
        IN /\ sRequests' = Append(sRequests, url)
           /\ masterLines' = lines
           /\ best_quality' = best
           /\ url' = ReplaceLast(url, best)
    /\ sPc' = "variant"
    /\ UNCHANGED <<variantLines, stream_urls, sErr>>
    /\ UNCHANGED <<feedVars, pageVars, mainVars>>

\* line 220 or 236: requests.get raises
get_stream_urls_request_fails ==
    /\ sPc \in {"master", "variant"}
    /\ sRequests' = Append(sRequests, url)
    /\ sPc' = "raised" /\ sErr' = "RequestException"
    /\ UNCHANGED <<url, masterLines, best_quality, variantLines, stream_urls>>
    /\ UNCHANGED <<feedVars, pageVars, mainVars>>

\* lines 236-248: request the variant, scan it, return the segment URLs
get_stream_urls_variant ==
    /\ sPc = "variant"
    /\ \E lines \in SeqsUpTo(VariantLineSet, MaxVariantLines) :
        /\ sRequests' = Append(sRequests, url)
        /\ variantLines' = lines
        /\ stream_urls' = StreamUrls(url, lines)
    /\ sPc' = "returned"
    /\ UNCHANGED <<url, masterLines, best_quality, sErr>>
    /\ UNCHANGED <<feedVars, pageVars, mainVars>>

-----------------------------------------------------------------------------
(* get_page_data, user_boards *)

\* a JSON array, as opposed to a JSON object (a record) or null
JList(s) == [list |-> s]
\* a Python list of Board objects (which are not subscriptable)
BoardList(s) == [list |-> s, of |-> "Board"]

RawBoard(b) == [id |-> b.id, url |-> b.url, owner |-> [username |-> b.owner], name |-> b.name]
RawBoards == {RawBoard(b) : b \in Boards}

\* an entry of resourceResponses
Entry(name, status, http_status, data) ==
    [name |-> name,
     response |-> [status |-> status, http_status |-> http_status, data |-> data]]

\* an entry whose response carries an error; segs is error.message.split(" - "),
\* each segment that is JSON text given as the object json.loads returns for it
ErrorEntry(name, segs) ==
    [name |-> name,
     response |-> [status |-> "failure", http_status |-> 404, data |-> Null,
                   error |-> [message |-> segs]]]

BoardDataSet == {JList(s) : s \in SeqsUpTo(RawBoards, MaxBoards)} \cup {Null}

PageEntries ==
    {Entry("UserProfileBaseResource", "success", 200, [username |-> "alice"])}
    \cup {Entry("UserProfileBoardResource", "success", 200, d) : d \in BoardDataSet}
    \cup {Entry("UserResource", "success", 200, Null)}
    \cup {ErrorEntry("UserProfileBoardResource",
                     <<"404 Client Error", [message |-> "User not found."]>>),
          ErrorEntry("UserProfileBoardResource", <<"Gateway Timeout">>)}

PageResponses == SeqsUpTo(PageEntries, MaxEntries)

\* an object of class UserProfileBaseResource on which no attribute was set (lines 45-52)
Unset == [unset |-> TRUE]

\* lines 102-104, 107-109: the three assignments to a slot
SlotOf(item) ==
    [status |-> item.response.status,
     status_code |-> item.response.http_status,
     data |-> item.response.data]

\* lines 337-345; the test of line 341 is on two string literals and never raises
response_has_errors(response_item) == "error" \in DOMAIN response_item.response

\* lines 348-358: [exc, message]
response_error_message(response_item) ==
    LET segs == response_item.response.error.message
    IN IF Len(segs) < 2 THEN [exc |-> "IndexError", message |-> NoneStr]
       ELSE [exc |-> "none", message |-> segs[2].message]

\* lines 61-81: [exc, result]
user_profile_board_resource(data_items) ==
    IF "list" \notin DOMAIN data_items
    THEN [exc |-> "ValueError", result |-> <<>>]
    ELSE IF "of" \in DOMAIN data_items /\ data_items.list # <<>>
    THEN [exc |-> "TypeError", result |-> <<>>]
    ELSE [exc |-> "none",
          result |-> [k \in 1..Len(data_items.list) |->
                        LET i == data_items.list[k]
                        IN Board(i.id, i.url, i.owner.username, i.name)]]

\* line 56-57, 97: the slots a new UserProfileResources() refers to, given the
\* class-level objects base and brd
ResultSlots(base, brd) == [base |-> base, board |-> brd]

\* lines 99-113: the loop over responses, from the slots and error so far
RECURSIVE PageLoop(_, _, _, _)
PageLoop(base, brd, error, responses) ==
    IF responses = <<>> THEN [exc |-> "none", base |-> base, board |-> brd, error |-> error]
    ELSE LET item == Head(responses)
             base1 == IF item.name = "UserProfileBaseResource" THEN SlotOf(item) ELSE base
             brd1 == IF item.name = "UserProfileBoardResource" THEN SlotOf(item) ELSE brd
         IN IF response_has_errors(item)
            THEN LET m == response_error_message(item)
                 IN IF m.exc # "none"
                    THEN [exc |-> m.exc, base |-> base1, board |-> brd1, error |-> error]
                    ELSE PageLoop(base1, brd1, m.message, Tail(responses))
            ELSE PageLoop(base1, brd1, error, Tail(responses))

\* lines 84-113: get_page_data on a page whose resourceResponses is responses
get_page_data(base, brd, responses) ==
    LET slots == ResultSlots(base, brd)
    IN PageLoop(slots.base, slots.board, NoneStr, responses)

\* lines 116-135: user_boards: [exc, base, board, error, boards]
user_boards(base, brd, responses) ==
    LET data == get_page_data(base, brd, responses)
        none == [exc |-> "none", base |-> data.base, board |-> data.board,
                 error |-> data.error, boards |-> <<>>]
    IN IF data.exc # "none" THEN [none EXCEPT !.exc = data.exc]
       ELSE IF data.error # NoneStr THEN [none EXCEPT !.exc = "UserBoardException"]
       ELSE IF data.board = Unset THEN [none EXCEPT !.exc = "AttributeError"]
       ELSE LET r == user_profile_board_resource(data.board.data)
            IN IF r.exc # "none" THEN [none EXCEPT !.exc = r.exc]
               ELSE LET stored == [data.board EXCEPT !.data = BoardList(r.result)]
                    IN IF Len(r.result) > 0
                       THEN [none EXCEPT !.board = stored, !.boards = r.result]
                       ELSE [none EXCEPT !.board = stored, !.exc = "UserBoardException"]

InitPage ==
    /\ baseRes = Unset /\ boardRes = Unset /\ resultError = NoneStr
    /\ pageResponse = <<>> /\ pRet = "none"

\* a call of get_page_data
get_page_data_call ==
    /\ \E responses \in PageResponses :
        LET r == get_page_data(baseRes, boardRes, responses)
        IN /\ pageResponse' = <<responses>>
           /\ baseRes' = r.base
           /\ boardRes' = r.board
           /\ IF r.exc # "none"
              THEN pRet' = r.exc /\ UNCHANGED resultError
              ELSE pRet' = "get_page_data" /\ resultError' = r.error
    /\ UNCHANGED <<feedVars, streamVars, mainVars>>

\* a call of user_boards
user_boards_call ==
    /\ \E responses \in PageResponses :
        LET r == user_boards(baseRes, boardRes, responses)
        IN /\ pageResponse' = <<responses>>
           /\ baseRes' = r.base
           /\ boardRes' = r.board
           /\ pRet' = IF r.exc # "none" THEN r.exc ELSE "user_boards"
           /\ resultError' = IF get_page_data(baseRes, boardRes, responses).exc # "none"
                             THEN resultError ELSE r.error
    /\ UNCHANGED <<feedVars, streamVars, mainVars>>

\* lines 93-95: the page has no initial-state script, or its text is not JSON
get_page_data_parse_fails ==
    /\ pageResponse' = <<>>
    /\ pRet' = "IndexError"
    /\ UNCHANGED <<baseRes, boardRes, resultError>>
    /\ UNCHANGED <<feedVars, streamVars, mainVars>>

-----------------------------------------------------------------------------
(* fetch_image, fetch_video, fetch_board, main *)

\* line 389: the default of --save-folder
SaveFolderArg == "download"

\* line 401: os.path.join(args.save_folder, board.owner, board.name)
SaveFolder(b) == <<SaveFolderArg, b.owner, b.name>>

\* lines 304-305: ext = url.split(".")[-1]; f"{id}.{ext}", as <<id, ext>>
ImageFilename(r) == <<r.id, Last(r.url)>>

\* line 314: f"{id}.ts"
VideoFilename(r) == <<r.id, "ts">>

\* lines 306, 315: os.path.join(save_folder, filename)
SavePath(folder, filename) == Append(folder, filename)

\* lines 307, 316: os.path.exists
PathExists(fsys, path) == path \in DOMAIN fsys

\* the condition of the fetch without the test of the destination
ShouldFetch_Always(path_exists, force_download) == TRUE

\* lines 308, 318: the condition of the fetch
ShouldFetch(path_exists, force_download) == ~path_exists \/ force_download

\* the body a server returns for a URL: one chunk, named by the URL
ResponseBody(u) == <<u>>

\* what a file that exists before the run holds
OldBytes == << <<"old">> >>

Content(fsys, path) == IF path \in DOMAIN fsys THEN fsys[path] ELSE <<>>

\* line 208: open(save_path, "wb") and the writes
WriteTruncate(fsys, path, bytes) ==
    [p \in DOMAIN fsys \cup {path} |-> IF p = path THEN bytes ELSE fsys[p]]

\* lines 270-271: open(save_path, "ab") and the copy
AppendTo(fsys, path, bytes) ==
    [p \in DOMAIN fsys \cup {path} |-> IF p = path THEN Content(fsys, path) \o bytes
                                       ELSE fsys[p]]

\* the fetch without its try/except: the exception leaves the function
AfterExcept_Reraised(exc) == exc

\* lines 361-368: make_dir; os.makedirs creates the tree, and the OSError of a
\* directory that exists is passed over
make_dir(ds, directory) == ds \cup {directory}

\* lines 211-212, 272-273: `except Exception as e: log(...)`: the exception that
\* leaves fetch_image / fetch_video when exc was raised inside the try block
AfterExcept(exc) == "none"

\* lines 195-212: fetch_image; outcome is what the network and the disk do
fetch_image(fsys, u, save_path, outcome) ==
    CASE outcome = "ok" ->
            [fs |-> WriteTruncate(fsys, save_path, ResponseBody(u)), reqs |-> {u},
             failed |-> FALSE, exc |-> "none"]
      [] outcome = "get_fails" ->
            [fs |-> fsys, reqs |-> {u}, failed |-> TRUE,
             exc |-> AfterExcept("MediaFetchError")]
      [] outcome = "write_fails" ->
            [fs |-> WriteTruncate(fsys, save_path, <<>>), reqs |-> {u}, failed |-> TRUE,
             exc |-> AfterExcept("MediaFetchError")]

ImageOutcomes == {"ok", "get_fails", "write_fails"}

\* lines 215-248 as a function of the two responses
get_stream_urls(purl, master, variant) ==
    StreamUrls(ReplaceLast(purl, BestQuality(master, "")), variant)

\* lines 268-271: the loop over streams, the first k requests succeeding
RECURSIVE AppendStreams(_, _, _, _)
AppendStreams(fsys, save_path, streams, k) ==
    IF k = 0 \/ streams = <<>> THEN fsys
    ELSE AppendStreams(AppendTo(fsys, save_path, ResponseBody(Head(streams))), save_path,
                       Tail(streams), k - 1)

\* the bodies of all the segments, in playlist order
RECURSIVE StreamBodies(_)
StreamBodies(streams) ==
    IF streams = <<>> THEN <<>>
    ELSE ResponseBody(Head(streams)) \o StreamBodies(Tail(streams))

\* lines 251-273: fetch_video; failAt = 0: no request fails, 1: the playlist request,
\* 2: the variant request, 2 + j: the request of segment j
fetch_video(fsys, playlist_url, save_path, master, variant, failAt) ==
    LET vurl == ReplaceLast(playlist_url, BestQuality(master, ""))
        streams == get_stream_urls(playlist_url, master, variant)
        n == Len(streams)
        failed == failAt # 0
        exc == IF failed THEN AfterExcept("MediaFetchError") ELSE "none"
    IN CASE failAt = 1 ->
              [fs |-> fsys, reqs |-> {playlist_url}, failed |-> failed, exc |-> exc,
               body |-> <<>>]
         [] failAt = 2 ->
              [fs |-> fsys, reqs |-> {playlist_url, vurl}, failed |-> failed, exc |-> exc,
               body |-> <<>>]
         [] OTHER ->
              LET k == IF failAt = 0 THEN n ELSE failAt - 3
                  asked == IF failAt = 0 THEN n ELSE failAt - 2
              IN [fs |-> AppendStreams(fsys, save_path, streams, k),
                  reqs |-> {playlist_url, vurl} \cup {streams[j] : j \in 1..asked},
                  failed |-> failed, exc |-> exc,
                  body |-> StreamBodies(streams)]

\* the playlist responses the media server gives in a run of main
MainMasters == {<<"#EXTM3U", "360p.m3u8", "hd/720p.m3u8">>, <<"#EXTM3U">>}
MainVariants == {<<"#EXTINF:4.0,", "seg0.ts", "seg1.ts">>, <<>>}

\* the feed contents a board can have in a run of main
MainFeeds == {<<ItemNeither>>, <<ItemImage, ItemVideo>>, <<ItemImageNoVideosKey>>}

BoardIds == {b.id : b \in Boards}

\* the resourceResponses of the profile page in a run of main: the board entry alone,
\* or nothing
MainPageResponses == {r \in PageResponses : Len(r) <= 1}

\* the files that can exist before the run: the same names in every board folder
Filenames == {<<"p1", "jpg">>, <<"p2", "ts">>}
InitialFilesystems ==
    {[p \in {SavePath(SaveFolder(b), f) : b \in Boards, f \in pre} |-> OldBytes] :
        pre \in SUBSET Filenames}

\* all positions of fetch_board's loops, board after board
RECURSIVE AllPositions(_, _)
AllPositions(counts, b) ==
    IF b > Len(counts) THEN <<>>
    ELSE [r \in 1..counts[b] |-> <<b, r>>] \o AllPositions(counts, b + 1)

InitMainIdle ==
    /\ mPc = "idle" /\ force = FALSE /\ feedOf = [i \in BoardIds |-> <<>>]
    /\ fs = <<>> /\ fs0 = <<>> /\ dirs = {} /\ boards = <<>> /\ bi = 0 /\ links = <<>> /\ ri = 0
    /\ raised = "none" /\ mediaReqs = {} /\ lastStep = <<>> /\ visited = <<>>
    /\ linkCounts = <<>> /\ allExisted = TRUE /\ firstFail = <<>>

\* lines 385-395: main before user_boards is called
InitMain ==
    /\ mPc = "start" /\ force \in BOOLEAN /\ feedOf \in [BoardIds -> MainFeeds]
    /\ fs0 \in InitialFilesystems /\ fs = fs0
    /\ dirs = {SubSeq(p, 1, Len(p) - 1) : p \in DOMAIN fs0}
    /\ boards = <<>> /\ bi = 0 /\ links = <<>> /\ ri = 0
    /\ raised = "none" /\ mediaReqs = {} /\ lastStep = <<>> /\ visited = <<>>
    /\ linkCounts = <<>> /\ allExisted = TRUE /\ firstFail = <<>>

\* lines 397, 404-405: boards = user_boards(args.path), in a fresh process
main_user_boards ==
    /\ mPc = "start"
    /\ \E responses \in MainPageResponses :
        LET r == user_boards(baseRes, boardRes, responses)
        IN /\ pageResponse' = <<responses>>
           /\ baseRes' = r.base
           /\ boardRes' = r.board
           /\ resultError' = r.error
           /\ pRet' = IF r.exc # "none" THEN r.exc ELSE "user_boards"
           /\ IF r.exc # "none"
              THEN mPc' = "aborted" /\ raised' = r.exc /\ UNCHANGED <<boards, bi>>
              ELSE mPc' = "links" /\ boards' = r.boards /\ bi' = 1 /\ UNCHANGED raised
    /\ UNCHANGED <<force, feedOf, fs, fs0, dirs, links, ri, mediaReqs, lastStep, visited,
                   linkCounts, allExisted, firstFail>>
    /\ UNCHANGED <<feedVars, streamVars>>

\* line 400: links = get_download_links(board), the feed serving feedOf[board.id]
\* and then "-end-"
main_get_download_links ==
    /\ mPc = "links"
    /\ LET c == ClassifyAll(feedOf[boards[bi].id])
       IN IF c.err # "none"
          THEN mPc' = "aborted" /\ raised' = c.err /\ UNCHANGED <<links, linkCounts>>
          ELSE /\ mPc' = "fetch_board" /\ links' = c.out
               /\ linkCounts' = Append(linkCounts, Len(c.out))
               /\ UNCHANGED raised
    /\ UNCHANGED <<force, feedOf, fs, fs0, dirs, boards, bi, ri, mediaReqs, lastStep,
                   visited, allExisted, firstFail>>
    /\ UNCHANGED <<feedVars, streamVars, pageVars>>

\* lines 289-299: the checks on entry to fetch_board
fetch_board_enter ==
    /\ mPc = "fetch_board"
    /\ IF links = <<>>
       THEN mPc' = "aborted" /\ raised' = "ValueError" /\ UNCHANGED ri
       ELSE mPc' = "resource" /\ ri' = 1 /\ UNCHANGED raised
    /\ UNCHANGED <<force, feedOf, fs, fs0, dirs, boards, bi, links, mediaReqs, lastStep,
                   visited, linkCounts, allExisted, firstFail>>
    /\ UNCHANGED <<feedVars, streamVars, pageVars>>

\* what follows the visit of links[ri], r being what the fetch returned: the next
\* resource, the next board (lines 301, 399), the end of main, or main's handler
AfterResource(r, step) ==
    /\ fs' = r.fs
    /\ dirs' = IF step.fetched THEN make_dir(dirs, SubSeq(step.path, 1, Len(step.path) - 1))
               ELSE dirs
    /\ mediaReqs' = mediaReqs \cup r.reqs
    /\ lastStep' = <<step>>
    /\ visited' = Append(visited, <<bi, ri>>)
    /\ allExisted' = (allExisted /\ step.existed)
    /\ firstFail' = IF firstFail = <<>> /\ r.failed THEN << <<bi, ri>> >> ELSE firstFail
    /\ IF r.exc # "none"
       THEN mPc' = "aborted" /\ raised' = r.exc /\ UNCHANGED <<bi, ri>>
       ELSE /\ UNCHANGED raised
            /\ IF ri < Len(links) THEN mPc' = "resource" /\ ri' = ri + 1 /\ UNCHANGED bi
               ELSE IF bi < Len(boards) THEN mPc' = "links" /\ bi' = bi + 1 /\ UNCHANGED ri
               ELSE mPc' = "done" /\ UNCHANGED <<bi, ri>>
    /\ UNCHANGED <<force, feedOf, fs0, boards, links, linkCounts>>
    /\ UNCHANGED <<feedVars, streamVars, pageVars>>

Skipped == [fs |-> fs, reqs |-> {}, failed |-> FALSE, exc |-> "none", body |-> <<>>]

\* lines 303-310: one iteration of fetch_board's loop on an image
fetch_board_image ==
    /\ mPc = "resource"
    /\ links[ri].type = "image"
    /\ LET resource == links[ri]
           save_path == SavePath(SaveFolder(boards[bi]), ImageFilename(resource))
           path_exists == PathExists(fs, save_path)
           fetch == ShouldFetch(path_exists, force)
       IN \E outcome \in IF fetch THEN ImageOutcomes ELSE {"ok"} :
           LET r == IF fetch THEN fetch_image(fs, resource.url, save_path, outcome)
                    ELSE Skipped
           IN AfterResource(r, [pos |-> <<bi, ri>>, type |-> "image", path |-> save_path,
                                existed |-> path_exists, fetched |-> fetch,
                                failed |-> r.failed, body |-> ResponseBody(resource.url)])

\* lines 313-320: one iteration of fetch_board's loop on a video
fetch_board_video ==
    /\ mPc = "resource"
    /\ links[ri].type = "video"
    /\ LET resource == links[ri]
           save_path == SavePath(SaveFolder(boards[bi]), VideoFilename(resource))
           path_exists == PathExists(fs, save_path)
           fetch == ShouldFetch(path_exists, force)
       IN \E master \in IF fetch THEN MainMasters ELSE {<<>>},
             variant \in IF fetch THEN MainVariants ELSE {<<>>} :
           \E failAt \in IF fetch
                          THEN 0..(Len(get_stream_urls(resource.url, master, variant)) + 2)
                          ELSE {0} :
              LET r == IF fetch
                       THEN fetch_video(fs, resource.url, save_path, master, variant, failAt)
                       ELSE Skipped
              IN AfterResource(r, [pos |-> <<bi, ri>>, type |-> "video",
                                   path |-> save_path, existed |-> path_exists,
                                   fetched |-> fetch, failed |-> r.failed,
                                   body |-> r.body])

-----------------------------------------------------------------------------
(* Specifications *)

\* a run of main
Init == InitMain /\ InitFeedIdle /\ InitStreamIdle /\ InitPage
Next ==
    \/ main_user_boards
    \/ main_get_download_links
    \/ fetch_board_enter
    \/ fetch_board_image
    \/ fetch_board_video
Spec == Init /\ [][Next]_vars

\* a call of get_download_links against any feed server
InitFeedSpec == InitFeed /\ InitStreamIdle /\ InitPage /\ InitMainIdle
NextFeed ==
    \/ get_download_links_page
    \/ get_download_links_request_fails
    \/ get_download_links_classify
SpecFeed == InitFeedSpec /\ [][NextFeed]_vars
\* the interpreter always takes the next step of the running call
FairSpecFeed == SpecFeed /\ WF_vars(NextFeed)

\* a call of get_stream_urls against any playlist server
InitStreamSpec == InitStream /\ InitFeedIdle /\ InitPage /\ InitMainIdle
NextStream ==
    \/ get_stream_urls_master
    \/ get_stream_urls_request_fails
    \/ get_stream_urls_variant
SpecStream == InitStreamSpec /\ [][NextStream]_vars

\* any sequence of get_page_data / user_boards calls in one process
InitPageSpec == InitPage /\ InitFeedIdle /\ InitStreamIdle /\ InitMainIdle
NextPage ==
    \/ get_page_data_call
    \/ user_boards_call
    \/ get_page_data_parse_fails
SpecPage == InitPageSpec /\ [][NextPage]_vars

-----------------------------------------------------------------------------
(* Properties of get_download_links *)

\* C1: once a response has carried the bookmark "-end-" (on request number endAt),
\* no further feed request is issued: the number of requests stays endAt; the
\* accumulated items are the concatenation of the data arrays of pages 1..endAt in
\* page order, and what is returned is the classification of that concatenation.
C1_StopsAtSentinel ==
    endAt # 0 =>
        /\ nreq = endAt
        /\ Len(pageLog) = endAt
        /\ resources = Flatten(pageLog)
        /\ lastResp[1].resource.options.bookmarks = <<EndBookmark>>
        /\ fPc = "returned" => originals = ClassifyAll(Flatten(pageLog)).out

\* the sentinel came on page 2 after a non-empty page 1; the call returned after
\* two requests
C1_Witness ==
    /\ fPc = "returned" /\ endAt = 2 /\ nreq = 2
    /\ Len(pageLog[1]) > 0 /\ Len(pageLog[2]) > 0 /\ Len(originals) > 1

\* the classification rule as the specification states it
RuleOf(res) ==
    IF "images" \in DOMAIN res /\ ("videos" \notin DOMAIN res \/ res.videos = Null)
    THEN <<DownloadableResource("image", res.id, res.images.orig.url)>>
    ELSE IF "videos" \in DOMAIN res /\ res.videos # Null
    THEN <<DownloadableResource("video", res.id, res.videos.video_list.V_HLSV4.url)>>
    ELSE <<>>

RECURSIVE RuleOfAll(_)
RuleOfAll(rs) == IF rs = <<>> THEN <<>> ELSE RuleOf(Head(rs)) \o RuleOfAll(Tail(rs))

\* C4: classification never fails, and maps every item to at most one resource by
\* the rule: images present and videos null or absent -> one Image; videos non-null
\* -> one Video; otherwise nothing.
C4_ClassifiesByRule ==
    /\ fErr # "KeyError"
    /\ fPc = "returned" => originals = RuleOfAll(resources)

\* C6: get_download_links terminates (returns or raises) whatever the server does.
C6_Terminates == <>(fPc \in {"returned", "raised"})

\* C7: the first request carries no bookmarks option; every later request carries
\* exactly the cursor of the immediately preceding response; every request carries
\* board_id = Board.id, page_size = 25 and source_url = Board.url.
C7_RequestCarriesPreviousCursor ==
    lastReq # <<>> =>
        LET o == lastReq[1].params.data.options
        IN /\ o.board_id = board.id
           /\ o.page_size = PageSize
           /\ lastReq[1].params.source_url = board.url
           /\ prevResp = <<>> => "bookmarks" \notin DOMAIN o
           /\ prevResp # <<>> =>
                /\ "bookmarks" \in DOMAIN o
                /\ o.bookmarks = <<prevResp[1].resource.options.bookmarks[1]>>

-----------------------------------------------------------------------------
(* Properties of get_stream_urls *)

ManifestIndexes(lines) == {i \in 1..Len(lines) : EndsWith(lines[i], "m3u8")}
MaxOf(S) == CHOOSE m \in S : \A x \in S : x <= m
IsSegmentLine(line) == EndsWith(line, "ts")

\* the first response has been received and scanned
MasterScanned == sPc \in {"variant", "returned"} \/ (sPc = "raised" /\ Len(sRequests) = 2)

\* C8: the variant is the last line ending in the manifest suffix; without such a
\* line the call fails with a parse error and issues no variant request; with one,
\* the result is the variant's segment lines in order, each replacing the final
\* path segment of the variant URL.
C8_VariantSelection ==
    /\ (MasterScanned /\ ManifestIndexes(masterLines) # {}) =>
            best_quality = masterLines[MaxOf(ManifestIndexes(masterLines))]
    /\ (MasterScanned /\ ManifestIndexes(masterLines) = {}) =>
            (sPc = "raised" /\ sErr = "ParseError" /\ Len(sRequests) = 1)
    /\ (sPc = "returned" /\ ManifestIndexes(masterLines) # {}) =>
            LET segs == SelectSeq(variantLines, IsSegmentLine)
            IN stream_urls = [j \in 1..Len(segs) |->
                                SubSeq(url, 1, Len(url) - 1) \o SplitSlash(segs[j])]

-----------------------------------------------------------------------------
(* Properties of get_page_data and user_boards *)

EntryIndexes(responses, name) == {i \in 1..Len(responses) : responses[i].name = name}

\* what a slot holds when the call's result depends on its response alone
SlotFrom(responses, name, byUserBoards) ==
    IF EntryIndexes(responses, name) = {} THEN Unset
    ELSE LET slot == SlotOf(responses[MaxOf(EntryIndexes(responses, name))])
         IN IF byUserBoards
            THEN [slot EXCEPT !.data = BoardList(user_profile_board_resource(slot.data).result)]
            ELSE slot

\* C10: the base and board slots of a returned result hold the values of the current
\* response's entries; a slot whose entry is missing from the current response holds
\* nothing left over from an earlier call.
C10_ResultFromCurrentResponse ==
    pRet \in {"get_page_data", "user_boards"} =>
        /\ baseRes = SlotFrom(pageResponse[1], "UserProfileBaseResource", FALSE)
        /\ boardRes = SlotFrom(pageResponse[1], "UserProfileBoardResource",
                               pRet = "user_boards")

-----------------------------------------------------------------------------
(* Properties of fetch_board and main *)

\* C2: a resource is fetched iff its destination does not exist or force_download is
\* true; so without force, while every destination checked existed, no media
\* request has been issued and every file (and directory) is as it was.
C2_FetchIffAbsentOrForced ==
    /\ lastStep # <<>> =>
            (lastStep[1].fetched <=> (~lastStep[1].existed \/ force))
    /\ (~force /\ allExisted) =>
            /\ mediaReqs = {}
            /\ fs = fs0
            /\ dirs = {SubSeq(p, 1, Len(p) - 1) : p \in DOMAIN fs0}

\* a run without force over two boards came to its end, every destination (images
\* and videos) being there already
C2_Witness ==
    /\ mPc = "done" /\ ~force /\ allExisted /\ Len(visited) = 4
    /\ lastStep[1].existed /\ ~lastStep[1].fetched

\* C3: after a video fetch in which no request failed, the destination holds exactly
\* the concatenation of the segment responses in playlist order, whatever it held
\* before (stated for playlists with at least one segment: a fetch of none writes
\* nothing).
C3_VideoFileIsConcatenation ==
    (lastStep # <<>> /\ lastStep[1].type = "video" /\ lastStep[1].fetched
        /\ ~lastStep[1].failed /\ lastStep[1].body # <<>>)
    => Content(fs, lastStep[1].path) = lastStep[1].body

\* C5: a failed media fetch never reaches main's handler; the run is not aborted
\* at the board of the failed resource, and a run that ends normally has visited
\* every resource of every board in order.
C5_MediaFailureSwallowed ==
    /\ raised # "MediaFetchError"
    /\ (lastStep # <<>> /\ lastStep[1].failed /\ mPc = "aborted") => bi > lastStep[1].pos[1]
    /\ mPc = "done" =>
            /\ Len(linkCounts) = Len(boards)
            /\ visited = AllPositions(linkCounts, 1)

\* the first resource of the first board failed; the three resources after it, the
\* second board's among them, were visited and the run ended normally
C5_Witness ==
    /\ mPc = "done" /\ firstFail = << <<1, 1>> >>
    /\ Len(boards) = 2 /\ visited = << <<1, 1>>, <<1, 2>>, <<2, 1>>, <<2, 2>> >>

\* C9: a board without downloadable resources does not stop the run while a later
\* board has resources to attempt.
C9_EmptyBoardDoesNotAbort ==
    ~(/\ mPc = "aborted" /\ raised = "ValueError" /\ links = <<>>
      /\ bi < Len(boards)
      /\ ClassifyAll(feedOf[boards[bi + 1].id]).out # <<>>)

=============================================================================
